---- MODULE Spec2Model ----
(***************************************************************************)
(* Quantum-Mechanics demonstrations: ladder operators on Fock coefficient  *)
(* vectors (ladder_operators_visual.py), the particle-in-a-box basis       *)
(* transform (change of basis.py) and the propagation of a two-level       *)
(* system (two-level quantum system.py).                                   *)
(*                                                                         *)
(* Arithmetic is exact: the floating point values of the program are       *)
(* modelled by the real numbers they approximate.  The ladder algebra      *)
(* only ever multiplies by sqrt(k), squares, sums squares, takes the root  *)
(* of such a sum and divides by it, so its values are the reals            *)
(*        s * sqrt(n/d) * 10^e     (s a sign, n/d a reduced fraction)      *)
(* and are kept in that form.  The decimal exponent lets the model hold    *)
(* values around the 1e-10 threshold of the renormalization guard.         *)
(***************************************************************************)
EXTENDS Integers, Sequences, FiniteSets, TLC

VARIABLES
    lvecs,      \* SpecLadder: the vectors so far, lvecs[1] the input
    lops,       \* SpecLadder: lops[i] is the operation that made lvecs[i+1]
    heap,       \* visualizer: the live numpy arrays, by object identity
    coeffs_id,  \* visualizer: the array bound to the local name coeffs
    state,      \* visualizer: the dictionary state; state.coeffs is an array identity
    plots,      \* visualizer: the data held by the drawn curves and bars
    call,       \* visualizer: the last call of a ladder method, as observed by its caller
    clicks,     \* visualizer: button events handled so far
    box_args,   \* SpecBox: the arguments ParticleInBox was called with
    box_error,  \* SpecBox: the exception the constructor raised, or "none"
    pib,        \* SpecBox: the ParticleInBox object, once constructed
    c_n,        \* SpecBox: the coefficients given to energy_to_position
    psi_x,      \* SpecBox: its result, the sampled wavefunction
    c_n_recovered,  \* SpecBox: the result of position_to_energy(psi_x)
    params,     \* SpecTwoLevel: the values E0, E1, x0, x1 the script is run with
    pc,         \* SpecTwoLevel: the section of the script that runs next
    X_energy,   \* SpecTwoLevel: the position operator in the energy basis
    printed,    \* SpecTwoLevel: the results of the checks the script prints
    psi_t,      \* SpecTwoLevel: the state of the last propagation step
    X_expectation,          \* SpecTwoLevel: <X>(t), one entry per sample done
    X_analytical,           \* SpecTwoLevel: the closed form of <X>(t)
    X_squared_expectation,  \* SpecTwoLevel: <X^2>(t), one entry per sample done
    sigma_x,    \* SpecTwoLevel: the standard deviation, one entry per sample done
    objects,    \* SpecConcurrent: the fields of the two engine objects
    arrays,     \* SpecConcurrent: the live arrays, by object identity
    callers,    \* SpecConcurrent: each caller's call in progress and its local names
    ncalls      \* SpecConcurrent: calls begun so far

(***************************************************************************)
(* Exact numbers.                                                          *)
(***************************************************************************)
RECURSIVE GCD(_, _)
GCD(a, b) == IF b = 0 THEN a ELSE GCD(b, a % b)

RECURSIVE Pow(_, _)
Pow(b, k) == IF k = 0 THEN 1 ELSE b * Pow(b, k - 1)

\* (n/d) * 100^e with n > 0, d > 0, brought to its unique reduced form.
RECURSIVE Strip(_, _, _)
Strip(n, d, e) ==
    IF n % 100 = 0 THEN Strip(n \div 100, d, e + 1)
    ELSE IF d % 100 = 0 THEN Strip(n, d \div 100, e - 1)
    ELSE [n |-> n, d |-> d, e |-> e]

\* The real s * sqrt(n/d) * 10^e, in reduced form; 0 has one representation.
Mk(s, n, d, e) ==
    IF s = 0 \/ n = 0 THEN [s |-> 0, n |-> 0, d |-> 1, e |-> 0]
    ELSE LET g == GCD(n, d)
             r == Strip(n \div g, d \div g, e)
         IN  [s |-> s, n |-> r.n, d |-> r.d, e |-> r.e]

Zero == Mk(0, 0, 1, 0)
One == Mk(1, 1, 1, 0)

\* The integer k times 10^e.
FromInt(k, e) == Mk(IF k > 0 THEN 1 ELSE IF k < 0 THEN -1 ELSE 0, k * k, 1, e)

\* np.sqrt(k) * x for an integer k >= 0.
MulSqrt(k, x) == Mk(IF k = 0 THEN 0 ELSE x.s, x.n * k, x.d, x.e)

\* np.abs(x)**2: the non-negative real (n/d) * 100^e, as a number whose root
\* is taken later; it is kept as the number sqrt of which is |x|.
AbsSq(x) == [n |-> x.n, d |-> x.d, e |-> x.e]

SqZero == [n |-> 0, d |-> 1, e |-> 0]

\* a + b for two squares (n/d) * 100^e.
SqAdd(a, b) ==
    IF a.n = 0 THEN b
    ELSE IF b.n = 0 THEN a
    ELSE LET m  == IF a.e < b.e THEN a.e ELSE b.e
             an == a.n * Pow(100, a.e - m)
             bn == b.n * Pow(100, b.e - m)
             r  == Mk(1, an * b.d + bn * a.d, a.d * b.d, m)
         IN  [n |-> r.n, d |-> r.d, e |-> r.e]

\* np.sqrt of a square: the non-negative root.
Sqrt(q) == Mk(1, q.n, q.d, q.e)

\* What a float division by zero leaves in the array (numpy warns and goes on):
\* nan for 0/0, an infinity otherwise.  Neither is a real; d = 0 marks them.
NaN == [s |-> 0, n |-> 0, d |-> 0, e |-> 0]
Inf(s) == [s |-> s, n |-> 1, d |-> 0, e |-> 0]

\* x / y
Div(x, y) ==
    IF y.n = 0 THEN (IF x.n = 0 THEN NaN ELSE Inf(x.s))
    ELSE Mk(x.s * y.s, x.n * y.d, x.d * y.n, x.e - y.e)

\* x > y for x, y >= 0, decided on the squares: x.n * y.d * 100^k against
\* y.n * x.d.  A product that can be formed at all is below 2^31 < 100^5, so
\* five exponent pairs apart decide the comparison on their own.
Gt(x, y) ==
    IF x.n = 0 THEN FALSE
    ELSE IF y.n = 0 THEN TRUE
    ELSE LET k == x.e - y.e
         IN  IF k >= 5 THEN y.n * x.d >= 0
             ELSE IF k <= -5 THEN x.n * y.d < 0
             ELSE IF k >= 0 THEN x.n * y.d * Pow(100, k) > y.n * x.d
             ELSE x.n * y.d > y.n * x.d * Pow(100, -k)

(***************************************************************************)
(* Vectors.  Python index i is TLA+ index i + 1.                           *)
(***************************************************************************)
At(v, i) == v[i + 1]
\* a plausible slip: the index taken as v[i - 1], the levels counted from 1
\* (v[-1] is the last entry)
Put_from_one(v, i, x) == [v EXCEPT ![IF i = 0 THEN Len(v) ELSE i] = x]
Put(v, i, x) == [v EXCEPT ![i + 1] = x]

\* np.zeros(k)
zeros(k) == [i \in 1..k |-> Zero]

\* np.sum(np.abs(v)**2), summed in index order
RECURSIVE SumAbsSqFrom(_, _)
SumAbsSqFrom(v, i) ==
    IF i >= Len(v) THEN SqZero ELSE SqAdd(AbsSq(At(v, i)), SumAbsSqFrom(v, i + 1))
SumAbsSq(v) == SumAbsSqFrom(v, 0)

(***************************************************************************)
(* QuantumHarmonicOscillator: the ladder operators.                        *)
(***************************************************************************)
\* for n in range(len(coeffs) - 1): new_coeffs[n + 1] = np.sqrt(n + 1) * coeffs[n]
RECURSIVE creation_loop(_, _, _)
creation_loop(coeffs, new_coeffs, n) ==
    IF n >= Len(coeffs) - 1 THEN new_coeffs
    ELSE creation_loop(coeffs, Put(new_coeffs, n + 1, MulSqrt(n + 1, At(coeffs, n))), n + 1)

\* a plausible slip: the factor of the source level, sqrt(n), instead of sqrt(n + 1)
RECURSIVE creation_loop_sqrt_n(_, _, _)
creation_loop_sqrt_n(coeffs, new_coeffs, n) ==
    IF n >= Len(coeffs) - 1 THEN new_coeffs
    ELSE creation_loop_sqrt_n(coeffs, Put(new_coeffs, n + 1, MulSqrt(n, At(coeffs, n))), n + 1)
apply_creation_sqrt_n(coeffs) == creation_loop_sqrt_n(coeffs, zeros(Len(coeffs)), 0)

\* a plausible slip: the top component is kept on the top level instead of
\* being dropped
apply_creation_keep_top(coeffs) ==
    LET shifted == creation_loop(coeffs, zeros(Len(coeffs)), 0)
        top == Len(coeffs) - 1
    IN  IF At(shifted, top) = Zero
        THEN Put(shifted, top, MulSqrt(top + 1, At(coeffs, top)))
        ELSE shifted

apply_creation(coeffs) == creation_loop(coeffs, zeros(Len(coeffs)), 0)

\* for n in range(1, len(coeffs)): new_coeffs[n - 1] = np.sqrt(n) * coeffs[n]
RECURSIVE annihilation_loop(_, _, _)
annihilation_loop(coeffs, new_coeffs, n) ==
    IF n >= Len(coeffs) THEN new_coeffs
    ELSE annihilation_loop(coeffs, Put(new_coeffs, n - 1, MulSqrt(n, At(coeffs, n))), n + 1)

\* a plausible slip: the loop bounds of apply_creation, so nothing is shifted down
RECURSIVE annihilation_loop_no_shift(_, _, _)
annihilation_loop_no_shift(coeffs, new_coeffs, n) ==
    IF n >= Len(coeffs) THEN new_coeffs
    ELSE annihilation_loop_no_shift(coeffs, Put(new_coeffs, n, MulSqrt(n, At(coeffs, n))), n + 1)
apply_annihilation_no_shift(coeffs) == annihilation_loop_no_shift(coeffs, zeros(Len(coeffs)), 1)

\* a plausible slip: the factor of the target level, sqrt(n + 1) for sqrt(n)
RECURSIVE annihilation_loop_sqrt_n1(_, _, _)
annihilation_loop_sqrt_n1(coeffs, new_coeffs, n) ==
    IF n >= Len(coeffs) THEN new_coeffs
    ELSE annihilation_loop_sqrt_n1(coeffs, Put(new_coeffs, n - 1, MulSqrt(n + 1, At(coeffs, n))), n + 1)
apply_annihilation_sqrt_n1(coeffs) == annihilation_loop_sqrt_n1(coeffs, zeros(Len(coeffs)), 1)

apply_annihilation(coeffs) == annihilation_loop(coeffs, zeros(Len(coeffs)), 1)

\* the guard of the renormalization, 1e-10
EpsExp == -10
Eps == Mk(1, 1, 1, EpsExp)

\* norm = np.sqrt(np.sum(np.abs(c)**2))
norm_of(c) == Sqrt(SumAbsSq(c))

\* a plausible slip: no guard, the division is always done
renormalize_unguarded(c) ==
    LET norm == norm_of(c) IN [i \in 1..Len(c) |-> Div(c[i], norm)]

\* a plausible slip: the guard only excludes the exact zero
renormalize_guard_zero(c) ==
    LET norm == norm_of(c)
    IN  IF Gt(norm, Zero) THEN [i \in 1..Len(c) |-> Div(c[i], norm)] ELSE c

\* if norm > 1e-10: c /= norm
renormalize(c) ==
    LET norm == norm_of(c)
    IN  IF Gt(norm, Eps) THEN [i \in 1..Len(c) |-> Div(c[i], norm)] ELSE c

(***************************************************************************)
(* ParticleInBox (change of basis.py).  Its values are sums of products of *)
(* coefficients, sqrt(2/L) and sines of multiples of pi/4 (the grid has    *)
(* 1, 2 or 4 intervals), so they are the reals (a + b*sqrt(2)) / d with    *)
(* integers a, b, d, kept exactly in that form.  Coefficients are real:    *)
(* the complex arrays of the program then have imaginary part 0.           *)
(***************************************************************************)
IAbs(k) == IF k < 0 THEN -k ELSE k

\* (a + b*sqrt(2)) / d in reduced form, d > 0
QMk(a, b, d) ==
    LET g == GCD(GCD(IAbs(a), IAbs(b)), IAbs(d))
        t == IF d < 0 THEN -1 ELSE 1
    IN  [a |-> (t * a) \div g, b |-> (t * b) \div g, d |-> (t * d) \div g]

QRat(n, d) == QMk(n, 0, d)
QZero == QRat(0, 1)
QOne == QRat(1, 1)
QAdd(x, y) == QMk(x.a * y.d + y.a * x.d, x.b * y.d + y.b * x.d, x.d * y.d)
QSub(x, y) == QAdd(x, QMk(-y.a, -y.b, y.d))
QMul(x, y) == QMk(x.a * y.a + 2 * x.b * y.b, x.a * y.b + x.b * y.a, x.d * y.d)
QHalf(x) == QMk(x.a, x.b, 2 * x.d)

IsSquare(k) == \E r \in 0..k : r * r = k
ISqrt(k) == CHOOSE r \in 0..k : r * r = k

\* np.sqrt(n / d) where the root lies in the field: sqrt(n*d)/d, or
\* sqrt(2*n*d) * sqrt(2) / (2*d)
QSqrtRat(n, d) ==
    IF IsSquare(n * d) THEN QMk(ISqrt(n * d), 0, d)
    ELSE QMk(0, ISqrt(2 * n * d), 2 * d)

\* np.sin(pi * r) for a rational r = p/q with q in {1, 2, 4}
QSinPi(r) ==
    LET k == ((r.a * (4 \div r.d)) % 8)
    IN  CASE k = 0 -> QZero
          [] k = 1 -> QMk(0, 1, 2)
          [] k = 2 -> QOne
          [] k = 3 -> QMk(0, 1, 2)
          [] k = 4 -> QZero
          [] k = 5 -> QMk(0, -1, 2)
          [] k = 6 -> QRat(-1, 1)
          [] k = 7 -> QMk(0, -1, 2)

None == [none |-> TRUE]

\* np.linspace(0, L, n_points): n_points samples, the end points included
linspace(L, n_points) ==
    [j \in 1..n_points |-> IF n_points = 1 THEN QZero ELSE QRat(L * (j - 1), n_points - 1)]

\* a plausible slip: a constructor that guards the spacing and accepts any grid
ParticleInBox_any_grid(L, n_max, n_points) ==
    LET x == linspace(L, IF n_points < 0 THEN 0 ELSE n_points)
    IN  [error |-> "none",
         obj |-> [L |-> L, n_max |-> n_max, x |-> x,
                  dx |-> IF Len(x) < 2 THEN QZero ELSE QSub(x[2], x[1])]]

\* ParticleInBox.__init__: np.linspace raises ValueError for a negative number
\* of samples, and self.x[1] raises IndexError on a grid of fewer than 2 points
ParticleInBox(L, n_max, n_points) ==
    IF n_points < 0 THEN [error |-> "ValueError", obj |-> None]
    ELSE LET x == linspace(L, n_points)
         IN  IF Len(x) < 2 THEN [error |-> "IndexError", obj |-> None]
             ELSE [error |-> "none",
                   obj |-> [L |-> L, n_max |-> n_max, x |-> x, dx |-> QSub(x[2], x[1])]]

\* a plausible slip: the normalization sqrt(1/L) of a full-period basis
position_wavefunction_sqrt_1_L(self, n, x) ==
    LET n_quantum == n + 1
        normalization == QSqrtRat(1, self.L)
    IN  QMul(normalization, QSinPi(QMul(QRat(n_quantum, self.L), x)))

\* position_wavefunction(n, x) at one point x: sqrt(2/L) * sin((n+1) * pi * x / L)
position_wavefunction(self, n, x) ==
    LET n_quantum == n + 1
        normalization == QSqrtRat(2, self.L)
    IN  QMul(normalization, QSinPi(QMul(QRat(n_quantum, self.L), x)))

\* the same over the whole grid
position_wavefunction_grid(self, n) ==
    [j \in 1..Len(self.x) |-> position_wavefunction(self, n, self.x[j])]

\* for n in range(n_states): psi_x += coefficients[n] * position_wavefunction(n, self.x)
RECURSIVE e2p_loop(_, _, _, _, _)
e2p_loop(self, coefficients, n_states, acc, n) ==
    IF n >= n_states THEN acc
    ELSE LET psi_n == position_wavefunction_grid(self, n)
         IN  e2p_loop(self, coefficients, n_states,
                      [j \in 1..Len(acc) |-> QAdd(acc[j], QMul(At(coefficients, n), psi_n[j]))],
                      n + 1)

\* a plausible slip: the sum stops at the n_max of the engine
energy_to_position_truncating(self, coefficients) ==
    e2p_loop(self, coefficients,
             IF Len(coefficients) < self.n_max THEN Len(coefficients) ELSE self.n_max,
             [j \in 1..Len(self.x) |-> QZero], 0)

\* energy_to_position: n_states = len(coefficients); psi_x = np.zeros_like(self.x)
energy_to_position(self, coefficients) ==
    e2p_loop(self, coefficients, Len(coefficients), [j \in 1..Len(self.x) |-> QZero], 0)

\* np.trapz(y, x): sum of (x[j+1] - x[j]) * (y[j] + y[j+1]) / 2
RECURSIVE trapz_from(_, _, _)
trapz_from(y, x, j) ==
    IF j >= Len(x) THEN QZero
    ELSE QAdd(QMul(QSub(x[j + 1], x[j]), QHalf(QAdd(y[j], y[j + 1]))), trapz_from(y, x, j + 1))
trapz(y, x) == trapz_from(y, x, 1)

\* position_to_energy: coefficients[n] = np.trapz(psi_n * psi_x, self.x), n < n_max
position_to_energy(self, psi) ==
    [k \in 1..self.n_max |->
        LET psi_n == position_wavefunction_grid(self, k - 1)
        IN  trapz([j \in 1..Len(self.x) |-> QMul(psi_n[j], psi[j])], self.x)]

\* the variables of the box, where no ParticleInBox is in use
NoBox ==
    /\ box_args = None
    /\ box_error = "none"
    /\ pib = None
    /\ c_n = <<>>
    /\ psi_x = <<>>
    /\ c_n_recovered = <<>>

two_level_vars == <<params, pc, X_energy, printed, psi_t, X_expectation, X_analytical,
                    X_squared_expectation, sigma_x>>

caller_vars == <<objects, arrays, callers, ncalls>>

\* the variables of the concurrent callers, where there are none
NoCallers ==
    /\ objects = None
    /\ arrays = <<>>
    /\ callers = <<>>
    /\ ncalls = 0

\* the variables of the two-level script, where it is not running
NoTwoLevel ==
    /\ params = None
    /\ pc = "idle"
    /\ X_energy = <<>>
    /\ printed = <<>>
    /\ psi_t = <<>>
    /\ X_expectation = <<>>
    /\ X_analytical = <<>>
    /\ X_squared_expectation = <<>>
    /\ sigma_x = <<>>

(***************************************************************************)
(* The interactive visualizer (create_interactive_visualization).  Arrays  *)
(* are objects: a name or a dictionary slot holds the identity of an array *)
(* and `/=` and item assignment change the array in place.  An array that  *)
(* no name refers to any more is freed, as by the reference count.         *)
(***************************************************************************)
n_max == 10
initial_n == 2
MaxClicks == 9

NoCall == [op |-> "none", arg |-> 0, ret |-> 0, fresh |-> TRUE, before |-> <<>>, after |-> <<>>]

\* the identity given to a new array
NewId(h) == CHOOSE i \in 1..(Cardinality(DOMAIN h) + 1) : i \notin DOMAIN h
Alloc(h, v) == [i \in DOMAIN h \cup {NewId(h)} |-> IF i \in DOMAIN h THEN h[i] ELSE v]
\* the array a loses a reference; it lives on only if a root still holds it
Release(h, a, roots) == IF a \in roots THEN h ELSE [i \in DOMAIN h \ {a} |-> h[i]]

\* qho.apply_creation / qho.apply_annihilation, by the name of the button
method(name, c) == IF name = "creation" THEN apply_creation(c) ELSE apply_annihilation(c)

\* a plausible slip: the operator works in the array it was given and returns it
method_in_place(h, a, name) == [heap |-> [h EXCEPT ![a] = method(name, h[a])], ret |-> a]

\* a call of apply_creation or apply_annihilation on the array a: the result is
\* built in a new array (np.zeros) and returned
method_call(h, a, name) == [heap |-> Alloc(h, method(name, h[a])), ret |-> NewId(h)]

\* what the caller can observe of the call
Observe(name, h, a, r) ==
    [op |-> name, arg |-> a, ret |-> r.ret, fresh |-> r.ret \notin DOMAIN h,
     before |-> h[a], after |-> r.heap[a]]

\* np.abs(x)
Abs(x) == Mk(IF x.s = 0 THEN 0 ELSE 1, x.n, x.d, x.e)

\* a plausible slip: break in place of skipping, the loop ends at the first
\* negligible coefficient
state_to_wavefunction_break(c) ==
    [i \in 1..Len(c) |-> IF \A j \in 1..i : Gt(Abs(c[j]), Eps) THEN c[i] ELSE Zero]

\* psi = sum of c_n * psi_n(x) over the n with abs(c_n) > 1e-10.  The
\* eigenfunctions psi_n are linearly independent on the grid, so the curve is
\* held as its coefficients on psi_0, psi_1, ...: c_n for a term that was
\* added, 0 for one that was skipped.
state_to_wavefunction(c) ==
    [i \in 1..Len(c) |-> IF Gt(Abs(c[i]), Eps) THEN c[i] ELSE Zero]

\* populations = np.abs(state['coeffs'])**2
populations(c) == [i \in 1..Len(c) |-> AbsSq(c[i])]

\* update_plots: the curve and the bars of the current state are redrawn (the
\* probability curve and the axis limits are functions of line_final and
\* psi_initial and hold nothing else).
update_plots(h, st) ==
    [plots EXCEPT !.line_final = state_to_wavefunction(h[st.coeffs]),
                  !.bars_final = populations(h[st.coeffs])]

\* lines 107-159: coeffs = |initial_n>, the initial curves, state = {'coeffs': coeffs.copy()}
Init ==
    LET c0 == Put(zeros(n_max), initial_n, One)
        h1 == Alloc(<<>>, c0)
        h2 == Alloc(h1, h1[1])
    IN  /\ heap = h2
        /\ coeffs_id = 1
        /\ state = [coeffs |-> 2]
        /\ plots = [psi_initial |-> state_to_wavefunction(c0),
                    bars_initial |-> populations(c0),
                    line_final |-> zeros(n_max),
                    bars_final |-> [i \in 1..n_max |-> SqZero]]
        /\ call = NoCall
        /\ clicks = 0
        /\ lvecs = <<>>
        /\ lops = <<>>
        /\ NoBox
        /\ NoTwoLevel
        /\ NoCallers

\* state['coeffs'] = qho.apply_...(state['coeffs']); norm = ...; if norm > 1e-10:
\* state['coeffs'] /= norm; update_plots().  The values after the callback:
ladder_op(name) ==
    LET r  == method_call(heap, state.coeffs, name)
        st == [state EXCEPT !.coeffs = r.ret]
        h1 == Release(r.heap, state.coeffs, {coeffs_id, st.coeffs})
        h2 == [h1 EXCEPT ![st.coeffs] = renormalize(h1[st.coeffs])]
    IN  [call |-> Observe(name, heap, state.coeffs, r), state |-> st, heap |-> h2,
         plots |-> update_plots(h2, st)]

apply_creation_op ==
    /\ clicks < MaxClicks
    /\ clicks' = clicks + 1
    /\ call' = ladder_op("creation").call
    /\ state' = ladder_op("creation").state
    /\ heap' = ladder_op("creation").heap
    /\ plots' = ladder_op("creation").plots
    /\ UNCHANGED <<coeffs_id, lvecs, lops, box_args, box_error, pib, c_n, psi_x, c_n_recovered,
                   two_level_vars, caller_vars>>

apply_annihilation_op ==
    /\ clicks < MaxClicks
    /\ clicks' = clicks + 1
    /\ call' = ladder_op("annihilation").call
    /\ state' = ladder_op("annihilation").state
    /\ heap' = ladder_op("annihilation").heap
    /\ plots' = ladder_op("annihilation").plots
    /\ UNCHANGED <<coeffs_id, lvecs, lops, box_args, box_error, pib, c_n, psi_x, c_n_recovered,
                   two_level_vars, caller_vars>>

\* state['coeffs'] = np.zeros(n_max); state['coeffs'][initial_n] = 1.0; update_plots()
reset_state ==
    LET r  == NewId(heap)
        st == [state EXCEPT !.coeffs = r]
        h1 == Release(Alloc(heap, zeros(n_max)), state.coeffs, {coeffs_id, r})
        h2 == [h1 EXCEPT ![r] = Put(h1[r], initial_n, One)]
    IN  /\ clicks < MaxClicks
        /\ clicks' = clicks + 1
        /\ call' = NoCall
        /\ state' = st
        /\ heap' = h2
        /\ plots' = update_plots(h2, st)
        /\ UNCHANGED <<coeffs_id, lvecs, lops, box_args, box_error, pib, c_n, psi_x, c_n_recovered,
                   two_level_vars, caller_vars>>

Next == apply_creation_op \/ apply_annihilation_op \/ reset_state

vars == <<lvecs, lops, heap, coeffs_id, state, plots, call, clicks,
          box_args, box_error, pib, c_n, psi_x, c_n_recovered,
          two_level_vars, caller_vars>>

Spec == Init /\ [][Next]_vars

\* the variables of the visualizer, where it is not running
NoVisualizer ==
    /\ heap = <<>>
    /\ coeffs_id = 0
    /\ state = [coeffs |-> 0]
    /\ plots = <<>>
    /\ call = NoCall
    /\ clicks = 0

(***************************************************************************)
(* SpecLadder: the ladder operators and the renormalization step as pure   *)
(* functions, applied one after the other to an input vector.              *)
(***************************************************************************)
MaxLen == 3
MaxOps == 5

\* Entries of the input vectors: small integers, at the scales 1, 1e-10 and
\* 1e-11 (at and below the guard of the renormalization).
Digits == {-2, 0, 1}
Scales == {0, -10, -11}
Inputs ==
    UNION {[1..len -> {FromInt(k, e) : k \in Digits}] : len \in 1..MaxLen, e \in Scales}

LInit ==
    /\ lvecs \in {<<c>> : c \in Inputs}
    /\ lops = <<>>
    /\ NoVisualizer /\ NoBox /\ NoTwoLevel /\ NoCallers

LCreation ==
    /\ Len(lops) < MaxOps
    /\ lvecs' = Append(lvecs, apply_creation(lvecs[Len(lvecs)]))
    /\ lops' = Append(lops, "creation")
    /\ UNCHANGED <<heap, coeffs_id, state, plots, call, clicks,
                   box_args, box_error, pib, c_n, psi_x, c_n_recovered,
                   two_level_vars, caller_vars>>

LAnnihilation ==
    /\ Len(lops) < MaxOps
    /\ lvecs' = Append(lvecs, apply_annihilation(lvecs[Len(lvecs)]))
    /\ lops' = Append(lops, "annihilation")
    /\ UNCHANGED <<heap, coeffs_id, state, plots, call, clicks,
                   box_args, box_error, pib, c_n, psi_x, c_n_recovered,
                   two_level_vars, caller_vars>>

LRenormalize ==
    /\ Len(lops) < MaxOps
    /\ lvecs' = Append(lvecs, renormalize(lvecs[Len(lvecs)]))
    /\ lops' = Append(lops, "renormalize")
    /\ UNCHANGED <<heap, coeffs_id, state, plots, call, clicks,
                   box_args, box_error, pib, c_n, psi_x, c_n_recovered,
                   two_level_vars, caller_vars>>

LNext == LCreation \/ LAnnihilation \/ LRenormalize

SpecLadder == LInit /\ [][LNext]_vars

(***************************************************************************)
(* SpecBox: a ParticleInBox is constructed, a coefficient vector is taken   *)
(* to the position basis and the result back to the energy basis.          *)
(***************************************************************************)
MaxNMax == 3
MaxCoeffs == 3

BoxLengths == {1, 2}
GridSizes == {-1, 0, 1, 2, 3, 5}
\* entries of the coefficient vectors: 0, 1, -1, 1/sqrt(2)
CoeffChoices == {QZero, QOne, QRat(-1, 1), QMk(0, 1, 2)}
CoeffVectors == UNION {[1..len -> CoeffChoices] : len \in 1..MaxCoeffs}

NoLadder == lvecs = <<>> /\ lops = <<>>

BInit == NoBox /\ NoLadder /\ NoVisualizer /\ NoTwoLevel /\ NoCallers

\* pib = ParticleInBox(L, n_max, n_points)
BConstruct ==
    \E L \in BoxLengths, nm \in 1..MaxNMax, np \in GridSizes :
        /\ box_args = None
        /\ box_args' = [L |-> L, n_max |-> nm, n_points |-> np]
        /\ box_error' = ParticleInBox(L, nm, np).error
        /\ pib' = ParticleInBox(L, nm, np).obj
        /\ UNCHANGED <<c_n, psi_x, c_n_recovered>>
        /\ UNCHANGED <<lvecs, lops, heap, coeffs_id, state, plots, call, clicks,
                   two_level_vars, caller_vars>>

\* psi_x = pib.energy_to_position(c_n)
BEnergyToPosition ==
    \E c \in CoeffVectors :
        /\ pib # None
        /\ psi_x = <<>>
        /\ c_n' = c
        /\ psi_x' = energy_to_position(pib, c)
        /\ UNCHANGED <<box_args, box_error, pib, c_n_recovered>>
        /\ UNCHANGED <<lvecs, lops, heap, coeffs_id, state, plots, call, clicks,
                   two_level_vars, caller_vars>>

\* c_n_recovered = pib.position_to_energy(psi_x)
BPositionToEnergy ==
    /\ pib # None
    /\ psi_x # <<>>
    /\ c_n_recovered = <<>>
    /\ c_n_recovered' = position_to_energy(pib, psi_x)
    /\ UNCHANGED <<box_args, box_error, pib, c_n, psi_x>>
    /\ UNCHANGED <<lvecs, lops, heap, coeffs_id, state, plots, call, clicks,
                   two_level_vars, caller_vars>>

BNext == BConstruct \/ BEnergyToPosition \/ BPositionToEnergy

SpecBox == BInit /\ [][BNext]_vars

(***************************************************************************)
(* The two-level system (two-level quantum system.py), a script that runs   *)
(* from top to bottom.  Its numbers are complex numbers whose real and     *)
(* imaginary parts lie in the field of the box, (a + b*sqrt(2)) / d: the   *)
(* amplitudes are multiples of 1/sqrt(2), and the sample times are taken   *)
(* at multiples of pi/4 so that the phases exp(-i*E*t/hbar) lie in the     *)
(* field too.  A time is held as the rational r with t = r * pi.           *)
(***************************************************************************)
QNeg(x) == QMk(-x.a, -x.b, x.d)

\* the sign of (a + b*sqrt(2)) / d
QSign(x) ==
    IF x.a = 0 /\ x.b = 0 THEN 0
    ELSE IF x.a >= 0 /\ x.b >= 0 THEN 1
    ELSE IF x.a <= 0 /\ x.b <= 0 THEN -1
    ELSE IF x.a > 0 THEN (IF x.a * x.a > 2 * x.b * x.b THEN 1 ELSE -1)
    ELSE (IF 2 * x.b * x.b > x.a * x.a THEN 1 ELSE -1)

\* np.cos(pi * r)
QCosPi(r) == QSinPi(QAdd(r, QRat(1, 2)))

Cx(re, im) == [re |-> re, im |-> im]
CReal(q) == Cx(q, QZero)
CInt(k) == CReal(QRat(k, 1))
CI == Cx(QZero, QOne)
CAdd(z, w) == Cx(QAdd(z.re, w.re), QAdd(z.im, w.im))
CMul(z, w) ==
    Cx(QSub(QMul(z.re, w.re), QMul(z.im, w.im)), QAdd(QMul(z.re, w.im), QMul(z.im, w.re)))
CSub(z, w) == Cx(QSub(z.re, w.re), QSub(z.im, w.im))
conj(z) == Cx(z.re, QNeg(z.im))
real(z) == z.re

\* two-dimensional arrays are sequences of rows; a ket is a 2 x 1 array
RECURSIVE CSumFrom(_, _)
CSumFrom(zs, k) == IF k > Len(zs) THEN CInt(0) ELSE CAdd(zs[k], CSumFrom(zs, k + 1))
\* A @ B
matmul(A, B) ==
    [r \in 1..Len(A) |->
        [c \in 1..Len(B[1]) |-> CSumFrom([k \in 1..Len(B) |-> CMul(A[r][k], B[k][c])], 1)]]
\* A.conj().T
conjT(A) == [r \in 1..Len(A[1]) |-> [c \in 1..Len(A) |-> conj(A[c][r])]]
\* z * A and A + B
scale(z, A) == [r \in 1..Len(A) |-> [c \in 1..Len(A[1]) |-> CMul(z, A[r][c])]]
madd(A, B) == [r \in 1..Len(A) |-> [c \in 1..Len(A[1]) |-> CAdd(A[r][c], B[r][c])]]
identity2 == <<<<CInt(1), CInt(0)>>, <<CInt(0), CInt(1)>>>>
\* np.allclose(A, B) in exact arithmetic
allclose(A, B) == A = B

\* lines 28-41: alpha = -1.0, c0 = sqrt(1/2), c1 = sqrt(1/(1 + |alpha|^2))
alpha == -1
c0_squared == QRat(1, 2)
c0 == QSqrtRat(c0_squared.a, c0_squared.d)
c1_squared == QRat(1, 1 + IAbs(alpha) * IAbs(alpha))
c1 == QSqrtRat(c1_squared.a, c1_squared.d)

\* lines 58-59: H_energy = [[E0, 0], [0, E1]]
H_energy(p) == <<<<CInt(p.E0), CInt(0)>>, <<CInt(0), CInt(p.E1)>>>>

\* lines 70-71: the eigenstates of X in the energy basis
ket_x0 == scale(CReal(c0), <<<<CInt(1)>>, <<CInt(1)>>>>)
ket_x1 == scale(CReal(c1), <<<<CInt(1)>>, <<CInt(alpha)>>>>)

\* a plausible slip: the second projector taken between the two different kets
position_operator_mixed_kets(p) ==
    madd(scale(p.x0, matmul(ket_x0, conjT(ket_x0))),
         scale(p.x1, matmul(ket_x1, conjT(ket_x0))))

\* a plausible slip: the eigenvalues attached to the wrong projectors
position_operator_swapped(p) ==
    madd(scale(p.x1, matmul(ket_x0, conjT(ket_x0))),
         scale(p.x0, matmul(ket_x1, conjT(ket_x1))))

\* line 75: X_energy = x0 * |x0><x0| + x1 * |x1><x1|
position_operator(p) ==
    madd(scale(p.x0, matmul(ket_x0, conjT(ket_x0))),
         scale(p.x1, matmul(ket_x1, conjT(ket_x1))))

\* lines 102-104: hbar = 1.0 and the sample times; the script samples [0, 20]
\* at 500 points, the model samples NSamples multiples of pi / TimeDen
hbar == 1
NSamples == 9
TimeDen == 4
t_array == [k \in 1..NSamples |-> QRat(k - 1, TimeDen)]

\* np.exp(-1j * pi * r)
exp_minus_i_pi(r) == Cx(QCosPi(r), QNeg(QSinPi(r)))

\* a plausible slip: np.exp, the exponential of each entry, in place of expm
expm_elementwise(p, r) ==
    [a \in 1..2 |-> [b \in 1..2 |->
        exp_minus_i_pi(QMul(H_energy(p)[a][b].re, QMul(r, QRat(1, hbar))))]]

\* expm(-1j * H_energy * t / hbar) at t = r * pi, for the diagonal H_energy
expm(p, r) ==
    [a \in 1..2 |-> [b \in 1..2 |->
        IF a = b THEN exp_minus_i_pi(QMul(H_energy(p)[a][a].re, QMul(r, QRat(1, hbar))))
        ELSE CInt(0)]]

\* a plausible slip: the evolution started from the other eigenstate
psi_0_ket_x1 == ket_x1
\* line 99: psi_0 = ket_x0
psi_0 == ket_x0

\* np.real((psi.conj().T @ A @ psi)[0, 0])
expectation(A, psi) == real(matmul(matmul(conjT(psi), A), psi)[1][1])

\* line 125: omega = (E0 - E1) / hbar
omega(p) == QRat(p.E0 - p.E1, hbar)

\* a plausible slip: the sum x0 + x1 in the oscillating term too
analytical_sum_twice(p, r) ==
    QAdd(QMul(QMul(c0, c0), real(CAdd(p.x0, p.x1))),
         QMul(QMul(QMul(c0, c0), real(CAdd(p.x0, p.x1))), QCosPi(QMul(omega(p), r))))

\* line 131: c0**2 * (x0 + x1) + c0**2 * (x0 - x1) * np.cos(omega * t), the
\* value a real array keeps of it
analytical(p, r) ==
    QAdd(QMul(QMul(c0, c0), real(CAdd(p.x0, p.x1))),
         QMul(QMul(QMul(c0, c0), real(CSub(p.x0, p.x1))),
              QCosPi(QMul(omega(p), r))))

\* line 142: X_squared = X_energy @ X_energy
X_squared(X) == matmul(X, X)

\* The difference of line 158 is formed in floating point from operands that
\* carry rounding errors: where the exact difference is not zero it has the
\* sign of the exact difference, and where the exact difference is zero it is
\* a few units in the last place of the operands, of either sign, or zero.
RoundingErrors == {-1, 0, 1}
fl_sub(a, b, err) == [exact |-> QSub(a, b), err |-> err]
fl_negative(v) == QSign(v.exact) < 0 \/ (QSign(v.exact) = 0 /\ v.err < 0)

\* np.sqrt of a float: nan for a negative argument (with a RuntimeWarning);
\* a root is held by its square
np_sqrt(v) ==
    IF fl_negative(v) THEN [nan |-> TRUE, square |-> QZero]
    ELSE [nan |-> FALSE, square |-> v.exact]

\* storing a value in an array of floats: a complex value with a non-zero
\* imaginary part either loses it (ComplexWarning) or raises TypeError,
\* depending on the type of the value and the version of numpy
store_outcomes(zs) ==
    IF \A k \in 1..Len(zs) : zs[k].im = QZero THEN {"stored"} ELSE {"stored", "TypeError"}

(***************************************************************************)
(* SpecTwoLevel: the script, section by section; the loops over t_array    *)
(* run one sample per step.  The script fixes E0 = 1, E1 = 0, x0 = 1 and   *)
(* x1 = -1; the model runs it with each choice of real values in           *)
(* TwoLevelParams.  Plots and the printed tables are left out.             *)
(***************************************************************************)
Energies0 == {1, 2}
Energies1 == {0}
Positions == {CInt(-1), CInt(0), CInt(1), CInt(3)}
\* the two eigenvalues of X are distinct, as in the script
TwoLevelParams ==
    {p \in [E0 : Energies0, E1 : Energies1, x0 : Positions, x1 : Positions] : p.x0 # p.x1}

TLStart ==
    /\ pc = "operators"
    /\ X_energy = <<>>
    /\ printed = <<>>
    /\ psi_t = <<>>
    /\ X_expectation = <<>>
    /\ X_analytical = <<>>
    /\ X_squared_expectation = <<>>
    /\ sigma_x = <<>>
    /\ NoLadder /\ NoVisualizer /\ NoBox /\ NoCallers

TLInit == params \in TwoLevelParams /\ TLStart

\* lines 58-87: the operators, and the Hermiticity check, whose result is printed
TLOperators ==
    /\ pc = "operators"
    /\ X_energy' = position_operator(params)
    /\ printed' = [hermitian |-> allclose(X_energy', conjT(X_energy'))]
    /\ pc' = "propagate"
    /\ UNCHANGED <<params, psi_t, X_expectation, X_analytical, X_squared_expectation, sigma_x>>
    /\ UNCHANGED <<lvecs, lops, heap, coeffs_id, state, plots, call, clicks,
                   box_args, box_error, pib, c_n, psi_x, c_n_recovered, caller_vars>>

\* lines 109-117, one pass of the loop: U_t = expm(...); psi_t = U_t @ psi_0;
\* X_expectation[i] = np.real(<psi_t|X|psi_t>)
TLPropagate ==
    LET i == Len(X_expectation) + 1
        U_t == expm(params, t_array[i])
    IN  /\ pc = "propagate"
        /\ psi_t' = matmul(U_t, psi_0)
        /\ X_expectation' = Append(X_expectation, expectation(X_energy, psi_t'))
        /\ pc' = IF i = NSamples THEN "analytical" ELSE "propagate"
        /\ UNCHANGED <<params, X_energy, printed, X_analytical, X_squared_expectation, sigma_x>>
        /\ UNCHANGED <<lvecs, lops, heap, coeffs_id, state, plots, call, clicks,
                       box_args, box_error, pib, c_n, psi_x, c_n_recovered, caller_vars>>

\* lines 125-131: the closed form, stored sample by sample in an array of floats
TLAnalytical ==
    \E outcome \in store_outcomes(<<params.x0, params.x1>>) :
        /\ pc = "analytical"
        /\ X_analytical' = IF outcome = "stored"
                           THEN [i \in 1..NSamples |-> analytical(params, t_array[i])]
                           ELSE X_analytical
        /\ pc' = IF outcome = "stored" THEN "sigma" ELSE outcome
        /\ UNCHANGED <<params, X_energy, printed, psi_t, X_expectation,
                       X_squared_expectation, sigma_x>>
        /\ UNCHANGED <<lvecs, lops, heap, coeffs_id, state, plots, call, clicks,
                       box_args, box_error, pib, c_n, psi_x, c_n_recovered, caller_vars>>

\* lines 142-158, one pass of the loop: <X^2>(t) and
\* sigma_x[i] = np.sqrt(X_squared_expectation[i] - X_expectation[i]**2)
TLSigma ==
    \E err \in RoundingErrors :
        LET i == Len(sigma_x) + 1
            U_t == expm(params, t_array[i])
            X2 == expectation(X_squared(X_energy), psi_t')
        IN  /\ pc = "sigma"
            /\ psi_t' = matmul(U_t, psi_0)
            /\ X_squared_expectation' = Append(X_squared_expectation, X2)
            /\ sigma_x' = Append(sigma_x,
                   np_sqrt(fl_sub(X2, QMul(X_expectation[i], X_expectation[i]), err)))
            /\ pc' = IF i = NSamples THEN "done" ELSE "sigma"
            /\ UNCHANGED <<params, X_energy, printed, X_expectation, X_analytical>>
            /\ UNCHANGED <<lvecs, lops, heap, coeffs_id, state, plots, call, clicks,
                           box_args, box_error, pib, c_n, psi_x, c_n_recovered, caller_vars>>

TLNext == TLOperators \/ TLPropagate \/ TLAnalytical \/ TLSigma

SpecTwoLevel == TLInit /\ [][TLNext]_vars

\* the script run with any complex numbers given as x0, x1
AnyPositions == {CInt(-1), CInt(1), CI}
AnyParams ==
    {p \in [E0 : Energies0, E1 : Energies1, x0 : AnyPositions, x1 : AnyPositions] : p.x0 # p.x1}
TLInitAnyX == params \in AnyParams /\ TLStart

SpecTwoLevelAnyX == TLInitAnyX /\ [][TLNext]_vars

(***************************************************************************)
(* SpecConcurrent: callers that share one QuantumHarmonicOscillator, one   *)
(* ParticleInBox and the arrays they pass as arguments.  A call runs one   *)
(* statement group at a time (the set-up, each pass of the loop, the       *)
(* return) and the callers interleave freely between them.  The local      *)
(* names of a call hold identities of arrays, as in the visualizer.        *)
(***************************************************************************)
CallerIds == {1, 2}
MaxCalls == 3

\* QuantumHarmonicOscillator(): m = omega = hbar = 1.0, x0 = np.sqrt(1/(1*1))
QuantumHarmonicOscillator == [m |-> One, omega |-> One, hbar |-> One, x0 |-> One]

\* the objects and the argument arrays the callers share: two coefficient
\* vectors and a grid for the oscillator, a coefficient vector and a sampled
\* wavefunction for the box
SharedObjects ==
    [qho |-> QuantumHarmonicOscillator, pib |-> ParticleInBox(1, 2, 3).obj]
SharedArrays ==
    <<  <<Zero, FromInt(1, 0), FromInt(-2, 0)>>,
        <<FromInt(1, -11), Zero, FromInt(1, 0)>>,
        <<FromInt(-1, 0), Zero, FromInt(1, 0)>>,
        <<QOne, QMk(0, 1, 2)>>,
        <<QZero, QOne, QZero>> >>
\* the calls a caller can make: the method and the arrays passed to it
Calls ==
    {[op |-> o, args |-> <<a>>] : o \in {"apply_creation", "apply_annihilation"}, a \in {1, 2}}
    \cup {[op |-> "state_to_wavefunction", args |-> <<3, a>>] : a \in {1, 2}}
    \cup {[op |-> "energy_to_position", args |-> <<4>>],
          [op |-> "position_to_energy", args |-> <<5>>]}

\* overlap records that another call was in progress during this one
Idle == [op |-> "idle", args |-> <<>>, copy |-> 0, local |-> 0, n |-> 0, stop |-> 0,
         status |-> "idle", overlap |-> FALSE]
Overlapping(k) == \E o \in CallerIds \ {k} : callers[o].status = "running"

CInit ==
    /\ objects = SharedObjects
    /\ arrays = SharedArrays
    /\ callers = [k \in CallerIds |-> Idle]
    /\ ncalls = 0
    /\ NoLadder /\ NoVisualizer /\ NoBox /\ NoTwoLevel

\* psi_n(x, n), held by what determines it: n, the grid, and the fields of
\* the oscillator that the method reads (m, omega, hbar, x0)
psi_n(self, x, n) ==
    [n |-> n, m |-> self.m, omega |-> self.omega, hbar |-> self.hbar, x0 |-> self.x0, x |-> x]
\* the curve psi is held as the terms added to it so far, entry n those
\* of the eigenfunction psi_n
NoTerm == <<>>

\* the entries of the array a method builds its result in
zero_of(op) ==
    CASE op \in {"apply_creation", "apply_annihilation"} -> Zero
      [] op = "state_to_wavefunction" -> NoTerm
      [] OTHER -> QZero

\* a plausible slip: the work array of a method is kept on the object, one
\* for all the calls that build a result of that kind
ScratchId(zero) == IF zero = Zero THEN 0 ELSE IF zero = NoTerm THEN -1 ELSE -2
np_zeros_on_object(h, k, zero) ==
    [heap |-> [i \in DOMAIN h \cup {ScratchId(zero)} |->
                  IF i = ScratchId(zero) THEN [j \in 1..k |-> zero] ELSE h[i]],
     id |-> ScratchId(zero)]

\* np.zeros(k), np.zeros_like(x): a new array of k zeros, bound to a local name
np_zeros(h, k, zero) == [heap |-> Alloc(h, [j \in 1..k |-> zero]), id |-> NewId(h)]

\* the arrays a caller's names no longer refer to once it starts a new call
Dropped(h, k) == [i \in DOMAIN h \ ({callers[k].local, callers[k].copy} \ {0}) |-> h[i]]

\* the length of the result and the end of the loop, as the set-up reads them
result_len(cl, h, obj) ==
    CASE cl.op \in {"apply_creation", "apply_annihilation"} -> Len(h[cl.args[1]])
      [] cl.op = "state_to_wavefunction" -> Len(h[cl.args[2]])
      [] cl.op = "energy_to_position" -> Len(obj.pib.x)
      [] OTHER -> obj.pib.n_max
first_n(cl) == IF cl.op = "apply_annihilation" THEN 1 ELSE 0
stop_n(cl, h, obj) ==
    CASE cl.op = "apply_creation" -> Len(h[cl.args[1]]) - 1
      [] cl.op = "apply_annihilation" -> Len(h[cl.args[1]])
      [] cl.op = "state_to_wavefunction" -> Len(h[cl.args[2]])
      [] cl.op = "energy_to_position" -> Len(h[cl.args[1]])
      [] OTHER -> obj.pib.n_max

\* the statements before the loop: the result array is made (np.zeros,
\* np.zeros_like) and energy_to_position copies its argument (np.array)
CBegin ==
    \E k \in CallerIds, cl \in Calls :
        LET h0 == Dropped(arrays, k)
            h1 == IF cl.op = "energy_to_position" THEN Alloc(h0, h0[cl.args[1]]) ELSE h0
            cp == IF cl.op = "energy_to_position" THEN NewId(h0) ELSE 0
            z  == np_zeros(h1, result_len(cl, h1, objects), zero_of(cl.op))
        IN  /\ ncalls < MaxCalls
            /\ callers[k].status \in {"idle", "returned"}
            /\ ncalls' = ncalls + 1
            /\ arrays' = z.heap
            /\ callers' = [callers EXCEPT ![k] =
                   [op |-> cl.op, args |-> cl.args, copy |-> cp, local |-> z.id,
                    n |-> first_n(cl), stop |-> stop_n(cl, h1, objects),
                    status |-> "running", overlap |-> Overlapping(k)]]
            /\ UNCHANGED objects
            /\ UNCHANGED <<lvecs, lops, heap, coeffs_id, state, plots, call, clicks, box_args,
                           box_error, pib, c_n, psi_x, c_n_recovered, two_level_vars>>

\* a caller in the loop of the method op, and the caller after one more pass
InLoop(k, op) ==
    /\ callers[k].status = "running"
    /\ callers[k].op = op
    /\ callers[k].n < callers[k].stop
Passed(k) ==
    [callers EXCEPT ![k].n = @ + 1, ![k].overlap = @ \/ Overlapping(k)]

\* apply_creation, one pass: new_coeffs[n + 1] = np.sqrt(n + 1) * coeffs[n]
CStepCreation ==
    \E k \in CallerIds :
        LET me == callers[k]
        IN  /\ InLoop(k, "apply_creation")
            /\ arrays' = [arrays EXCEPT ![me.local] =
                   Put(@, me.n + 1, MulSqrt(me.n + 1, At(arrays[me.args[1]], me.n)))]
            /\ callers' = Passed(k)
            /\ UNCHANGED <<objects, ncalls>>
            /\ UNCHANGED <<lvecs, lops, heap, coeffs_id, state, plots, call, clicks, box_args,
                           box_error, pib, c_n, psi_x, c_n_recovered, two_level_vars>>

\* apply_annihilation, one pass: new_coeffs[n - 1] = np.sqrt(n) * coeffs[n]
CStepAnnihilation ==
    \E k \in CallerIds :
        LET me == callers[k]
        IN  /\ InLoop(k, "apply_annihilation")
            /\ arrays' = [arrays EXCEPT ![me.local] =
                   Put(@, me.n - 1, MulSqrt(me.n, At(arrays[me.args[1]], me.n)))]
            /\ callers' = Passed(k)
            /\ UNCHANGED <<objects, ncalls>>
            /\ UNCHANGED <<lvecs, lops, heap, coeffs_id, state, plots, call, clicks, box_args,
                           box_error, pib, c_n, psi_x, c_n_recovered, two_level_vars>>

\* state_to_wavefunction, one pass: if abs(c_n) > 1e-10: psi += c_n * self.psi_n(x, n)
CStepWavefunction ==
    \E k \in CallerIds :
        LET me == callers[k]
            coeff == At(arrays[me.args[2]], me.n)
            term == [amp |-> coeff, basis |-> psi_n(objects.qho, arrays[me.args[1]], me.n)]
        IN  /\ InLoop(k, "state_to_wavefunction")
            /\ arrays' = IF Gt(Abs(coeff), Eps)
                         THEN [arrays EXCEPT ![me.local] =
                                  Put(@, me.n, Append(At(@, me.n), term))]
                         ELSE arrays
            /\ callers' = Passed(k)
            /\ UNCHANGED <<objects, ncalls>>
            /\ UNCHANGED <<lvecs, lops, heap, coeffs_id, state, plots, call, clicks, box_args,
                           box_error, pib, c_n, psi_x, c_n_recovered, two_level_vars>>

\* energy_to_position, one pass:
\* psi_x += coefficients[n] * self.position_wavefunction(n, self.x)
CStepEnergyToPosition ==
    \E k \in CallerIds :
        LET me == callers[k]
            self == objects.pib
        IN  /\ InLoop(k, "energy_to_position")
            /\ arrays' = [arrays EXCEPT ![me.local] =
                   [j \in 1..Len(@) |->
                       QAdd(@[j], QMul(At(arrays[me.copy], me.n),
                                       position_wavefunction(self, me.n, self.x[j])))]]
            /\ callers' = Passed(k)
            /\ UNCHANGED <<objects, ncalls>>
            /\ UNCHANGED <<lvecs, lops, heap, coeffs_id, state, plots, call, clicks, box_args,
                           box_error, pib, c_n, psi_x, c_n_recovered, two_level_vars>>

\* position_to_energy, one pass: psi_n = self.position_wavefunction(n, self.x);
\* coefficients[n] = np.trapz(psi_n * psi_x, self.x)
CStepPositionToEnergy ==
    \E k \in CallerIds :
        LET me == callers[k]
            self == objects.pib
            eigen == position_wavefunction_grid(self, me.n)
            given == arrays[me.args[1]]
        IN  /\ InLoop(k, "position_to_energy")
            /\ arrays' = [arrays EXCEPT ![me.local] =
                   Put(@, me.n, trapz([j \in 1..Len(self.x) |-> QMul(eigen[j], given[j])],
                                      self.x))]
            /\ callers' = Passed(k)
            /\ UNCHANGED <<objects, ncalls>>
            /\ UNCHANGED <<lvecs, lops, heap, coeffs_id, state, plots, call, clicks, box_args,
                           box_error, pib, c_n, psi_x, c_n_recovered, two_level_vars>>

\* return new_coeffs / psi / psi_x / coefficients: the caller holds the
\* result array; the other local names are gone
CReturn ==
    \E k \in CallerIds :
        /\ callers[k].status = "running"
        /\ callers[k].n >= callers[k].stop
        /\ arrays' = [i \in DOMAIN arrays \ ({callers[k].copy} \ {0}) |-> arrays[i]]
        /\ callers' = [callers EXCEPT ![k].status = "returned", ![k].copy = 0]
        /\ UNCHANGED <<objects, ncalls>>
        /\ UNCHANGED <<lvecs, lops, heap, coeffs_id, state, plots, call, clicks, box_args,
                       box_error, pib, c_n, psi_x, c_n_recovered, two_level_vars>>

CNext ==
    \/ CBegin
    \/ CStepCreation
    \/ CStepAnnihilation
    \/ CStepWavefunction
    \/ CStepEnergyToPosition
    \/ CStepPositionToEnergy
    \/ CReturn

SpecConcurrent == CInit /\ [][CNext]_vars

(***************************************************************************)
(* Claims on the ladder operators (SpecLadder).                            *)
(***************************************************************************)
Steps(name) == {i \in 1..Len(lops) : lops[i] = name}
Probes == {Zero, One, FromInt(-2, 0), FromInt(1, -11)}
SqOne == [n |-> 1, d |-> 1, e |-> 0]
IsReal(x) == x.d # 0

\* C1: apply_creation returns a vector of the same length with new[0] = 0 and
\* new[n+1] = sqrt(n+1) * coeffs[n] for n in 0..len-2, and coeffs[len-1] has no
\* influence on any entry of the result.
C1_CreationShiftsUp ==
    \A i \in Steps("creation") :
        LET c == lvecs[i]
            new == lvecs[i + 1]
        IN  /\ Len(new) = Len(c)
            /\ At(new, 0) = Zero
            /\ \A n \in 0..(Len(c) - 2) : At(new, n + 1) = MulSqrt(n + 1, At(c, n))
            /\ \A v \in Probes : apply_creation(Put(c, Len(c) - 1, v)) = new

\* a creation applied to a vector whose top and bottom entries are both non-zero
C1_Witness ==
    \E i \in Steps("creation") :
        /\ Len(lvecs[i]) = MaxLen
        /\ At(lvecs[i], 0) # Zero
        /\ At(lvecs[i], MaxLen - 1) # Zero
        /\ At(lvecs[i + 1], MaxLen - 1) # Zero

\* C2: apply_annihilation returns a vector of the same length with
\* new[n-1] = sqrt(n) * coeffs[n] for n in 1..len-1 and new[len-1] = 0, and
\* coeffs[0] has no influence on any entry of the result.
C2_AnnihilationShiftsDown ==
    \A i \in Steps("annihilation") :
        LET c == lvecs[i]
            new == lvecs[i + 1]
        IN  /\ Len(new) = Len(c)
            /\ At(new, Len(c) - 1) = Zero
            /\ \A n \in 1..(Len(c) - 1) : At(new, n - 1) = MulSqrt(n, At(c, n))
            /\ \A v \in Probes : apply_annihilation(Put(c, 0, v)) = new

C2_Witness ==
    \E i \in Steps("annihilation") :
        /\ Len(lvecs[i]) = MaxLen
        /\ At(lvecs[i], 0) # Zero
        /\ At(lvecs[i], MaxLen - 1) # Zero
        /\ At(lvecs[i + 1], 0) # Zero

\* C3 as stated: entry 0 of the result of apply_annihilation is 0 whatever the
\* input.
C3_EntryZeroAlwaysZero ==
    \A i \in Steps("annihilation") : At(lvecs[i + 1], 0) = Zero

\* C3 amended: the entry that is always 0 is the top one, new[len-1]; entry 0
\* is coeffs[1] (sqrt(1) * coeffs[1]) when len >= 2, and 0 only when len = 1.
C3_TopEntryZero ==
    \A i \in Steps("annihilation") :
        LET c == lvecs[i]
            new == lvecs[i + 1]
        IN  /\ At(new, Len(new) - 1) = Zero
            /\ At(new, 0) = (IF Len(c) >= 2 THEN At(c, 1) ELSE Zero)

\* an annihilation whose result has a non-zero entry 0
C3_Witness ==
    \E i \in Steps("annihilation") :
        Len(lvecs[i]) >= 2 /\ At(lvecs[i], 1) # Zero /\ At(lvecs[i + 1], 0) # Zero

IsVacuum(c) == At(c, 0) # Zero /\ \A n \in 1..(Len(c) - 1) : At(c, n) = Zero

\* C4: annihilating a vacuum state (coeffs[0] non-zero, the rest 0) yields the
\* zero vector of the same length, and renormalizing that vector leaves every
\* entry exactly 0: the guard is not passed and nothing is divided.
C4_VacuumAnnihilation ==
    \A i \in Steps("annihilation") :
        IsVacuum(lvecs[i]) =>
            /\ lvecs[i + 1] = zeros(Len(lvecs[i]))
            /\ (i + 1 \in Steps("renormalize")) =>
                   /\ ~Gt(norm_of(lvecs[i + 1]), Eps)
                   /\ lvecs[i + 2] = zeros(Len(lvecs[i]))

C4_Witness ==
    \E i \in Steps("annihilation") :
        /\ IsVacuum(lvecs[i])
        /\ Len(lvecs[i]) = MaxLen
        /\ i + 1 \in Steps("renormalize")
        /\ lvecs[i + 2] = zeros(MaxLen)

\* C5: renormalization divides every coefficient by norm = sqrt(sum |c_n|^2)
\* when norm > 1e-10, after which sum |c_n|^2 = 1, and leaves the vector as it
\* was when norm <= 1e-10; after a creation as after an annihilation.
C5_Renormalization ==
    \A i \in Steps("renormalize") :
        LET c == lvecs[i]
            out == lvecs[i + 1]
            norm == Sqrt(SumAbsSq(c))
        IN  IF Gt(norm, Eps)
            THEN /\ SumAbsSq(out) = SqOne
                 /\ Len(out) = Len(c)
                 /\ \A n \in 0..(Len(c) - 1) :
                        IsReal(At(out, n)) /\ At(out, n) = Div(At(c, n), norm)
            ELSE out = c

\* one history with both branches of the guard on non-zero vectors: a norm of
\* exactly 1e-10 leaves the vector as it was, and the renormalization after a
\* creation and after an annihilation each divide by a norm above 1e-10
C5_Witness ==
    /\ lops = <<"renormalize", "creation", "renormalize", "annihilation", "renormalize">>
    /\ norm_of(lvecs[1]) = Eps
    /\ lvecs[2] = lvecs[1]
    /\ Gt(norm_of(lvecs[3]), Eps)
    /\ lvecs[4] # lvecs[3]
    /\ Gt(norm_of(lvecs[5]), Eps)
    /\ lvecs[6] # lvecs[5]

Basis(n, len) == [i \in 1..len |-> IF i = n + 1 THEN One ELSE Zero]
IsBasis(c) == \E n \in 0..(Len(c) - 1) : c = Basis(n, Len(c))
IndexOf(c) == CHOOSE n \in 0..(Len(c) - 1) : c = Basis(n, Len(c))

\* C6: from a basis vector |n> of length len, creation, then annihilation, then
\* renormalization give |n> again for n in 0..len-2 and the zero vector for
\* n = len-1 (also with the renormalization the callbacks do in between).
C6_CreateAnnihilateRoundTrip ==
    LET after(k) ==
            IF IndexOf(lvecs[1]) <= Len(lvecs[1]) - 2
            THEN lvecs[k] = lvecs[1]
            ELSE lvecs[k] = zeros(Len(lvecs[1]))
    IN  IsBasis(lvecs[1]) =>
            /\ (Len(lops) >= 3 /\ SubSeq(lops, 1, 3) = <<"creation", "annihilation", "renormalize">>)
                   => after(4)
            /\ lops = <<"creation", "renormalize", "annihilation", "renormalize">>
                   => after(5)

\* the round trip from the basis vector just under the top one: the factor
\* sqrt(MaxLen - 1) is applied twice and divided out
C6_Witness ==
    /\ lvecs[1] = Basis(MaxLen - 2, MaxLen)
    /\ Len(lops) = 3
    /\ lops = <<"creation", "annihilation", "renormalize">>
    /\ lvecs[3] # lvecs[1]
    /\ lvecs[4] = lvecs[1]

(***************************************************************************)
(* Claims on the basis transform (SpecBox).                                *)
(***************************************************************************)
Min(a, b) == IF a < b THEN a ELSE b
QVecAdd(u, v) == [j \in 1..Len(u) |-> QAdd(u[j], v[j])]
Pad(c, len) == [k \in 1..len |-> IF k <= Len(c) THEN c[k] ELSE QZero]

\* the sum of c[n] * psi_n over the grid for the n from first to len(c) - 1
RECURSIVE TermsFrom(_, _, _)
TermsFrom(self, c, first) ==
    IF first >= Len(c) THEN [j \in 1..Len(self.x) |-> QZero]
    ELSE QVecAdd([j \in 1..Len(self.x) |->
                     QMul(At(c, first), position_wavefunction(self, first, self.x[j]))],
                 TermsFrom(self, c, first + 1))

\* C8 as stated: coefficients at indices >= n_max are dropped, the result for a
\* vector longer than n_max is the result for its first n_max entries.
C8_DropsBeyondNMax ==
    (psi_x # <<>> /\ Len(c_n) > pib.n_max) =>
        psi_x = energy_to_position(pib, SubSeq(c_n, 1, pib.n_max))

\* C8 amended: energy_to_position sums over every entry of the vector it is
\* given and does not read n_max: the result is the result for the first n_max
\* entries plus the terms c_n * psi_n of the entries at indices >= n_max, and
\* it is the same for every n_max of the engine; no error is raised.
C8_SumsEveryCoefficient ==
    psi_x # <<>> =>
        /\ box_error = "none"
        /\ Len(psi_x) = Len(pib.x)
        /\ psi_x = QVecAdd(TermsFrom(pib, SubSeq(c_n, 1, Min(Len(c_n), pib.n_max)), 0),
                           TermsFrom(pib, c_n, pib.n_max))
        /\ \A k \in 1..MaxNMax : psi_x = energy_to_position([pib EXCEPT !.n_max = k], c_n)

\* a vector longer than n_max whose entries beyond n_max change the result
C8_Witness ==
    /\ psi_x # <<>>
    /\ Len(c_n) > pib.n_max
    /\ psi_x # energy_to_position(pib, SubSeq(c_n, 1, pib.n_max))

\* C9 as stated: a grid of fewer than 2 points (0 or 1) is rejected at
\* construction with an InvalidGridError.
C9_InvalidGridError ==
    (box_args # None /\ box_args.n_points \in 0..1) => box_error = "InvalidGridError"

\* C9 amended: a grid of fewer than 2 points is rejected at construction,
\* before any transform: with the IndexError of self.x[1] for n_points 0 or 1,
\* with the ValueError of np.linspace for a negative n_points; a grid of 2 or
\* more points is accepted.
C9_GridRejectedAtConstruction ==
    box_args # None =>
        /\ box_args.n_points \in {0, 1} => box_error = "IndexError"
        /\ box_args.n_points < 0 => box_error = "ValueError"
        /\ box_args.n_points >= 2 => (box_error = "none" /\ pib # None)
        /\ box_error # "none" => (pib = None /\ psi_x = <<>> /\ c_n_recovered = <<>>)

C9_Witness ==
    box_args # None /\ box_args.n_points = 1 /\ box_error = "IndexError" /\ pib = None

\* C10: for every coefficient vector c of length <= n_max the round trip
\* position_to_energy(energy_to_position(c)) has length n_max and is c padded
\* with zeros, within quadrature tolerance.  The tolerance is 0 on a grid that
\* resolves every mode of the engine, n_max <= n_points - 2 (as n_max = 5 on
\* 1000 points does): there the trapezoid sums of the products of two basis
\* functions are exactly 0 and 1.  On a coarser grid the error bound of the
\* trapezoid rule is larger than the coefficients and the claim says nothing.
C10_RoundTrip ==
    c_n_recovered # <<>> =>
        /\ Len(c_n_recovered) = pib.n_max
        /\ (Len(c_n) <= pib.n_max /\ pib.n_max <= Len(pib.x) - 2) =>
               c_n_recovered = Pad(c_n, pib.n_max)

\* the round trip of (|n=1> + |n=2>)/sqrt(2) with the largest resolved n_max
C10_Witness ==
    /\ c_n = <<QMk(0, 1, 2), QMk(0, 1, 2)>>
    /\ pib # None
    /\ pib.n_max = 3
    /\ Len(pib.x) = 5
    /\ c_n_recovered = <<QMk(0, 1, 2), QMk(0, 1, 2), QZero>>

(***************************************************************************)
(* Claims on the visualizer (Spec).                                        *)
(***************************************************************************)
InitialCoeffs == Put(zeros(n_max), initial_n, One)

\* C7: apply_creation and apply_annihilation return a newly allocated vector
\* and leave the vector passed in unchanged, entry by entry; and the array
\* coeffs, with the initial curve and bars drawn from it, is never changed by
\* the button callbacks, the in-place division of the renormalization included.
C7_FunctionalOperators ==
    /\ call.op # "none" =>
           /\ call.fresh
           /\ call.ret # call.arg
           /\ call.after = call.before
    /\ coeffs_id \in DOMAIN heap
    /\ heap[coeffs_id] = InitialCoeffs
    /\ plots.psi_initial = state_to_wavefunction(InitialCoeffs)
    /\ plots.bars_initial = populations(InitialCoeffs)

\* a creation whose result the renormalization then divided in place
C7_Witness ==
    /\ call.op = "creation"
    /\ call.before # InitialCoeffs
    /\ method("creation", call.before) # heap[state.coeffs]
    /\ heap[state.coeffs] = renormalize(method("creation", call.before))
    /\ heap[state.coeffs] # zeros(n_max)

(***************************************************************************)
(* Claims on the two-level system (SpecTwoLevel, SpecTwoLevelAnyX).        *)
(***************************************************************************)
IsRealC(z) == z.im = QZero
trace(A) == CAdd(A[1][1], A[2][2])
det(A) == CSub(CMul(A[1][1], A[2][2]), CMul(A[1][2], A[2][1]))

\* C11: for every real x0 and x1 the operator X = x0|x0><x0| + x1|x1><x1|
\* built by the script equals its conjugate transpose, and the script's
\* check prints True.
C11_PositionOperatorHermitian ==
    (X_energy # <<>> /\ IsRealC(params.x0) /\ IsRealC(params.x1)) =>
        /\ X_energy = conjT(X_energy)
        /\ \A r \in 1..2 : IsRealC(X_energy[r][r])
        /\ printed.hermitian

\* an operator with non-zero diagonal and off-diagonal entries has been built
C11_Witness ==
    /\ X_energy # <<>>
    /\ IsRealC(params.x0) /\ IsRealC(params.x1)
    /\ X_energy[1][2] # CInt(0)
    /\ X_energy[1][1] # CInt(0)

\* C12: for real x0 # x1 the eigenvalues of X are exactly x0 and x1: its
\* trace is x0 + x1, its determinant x0 * x1 (so its characteristic
\* polynomial is (l - x0)(l - x1)), and |x0>, |x1> are the eigenvectors,
\* X|x0> = x0|x0> and X|x1> = x1|x1>.
C12_EigenvaluesAreX0X1 ==
    (X_energy # <<>> /\ IsRealC(params.x0) /\ IsRealC(params.x1) /\ params.x0 # params.x1) =>
        /\ trace(X_energy) = CAdd(params.x0, params.x1)
        /\ det(X_energy) = CMul(params.x0, params.x1)
        /\ matmul(X_energy, ket_x0) = scale(params.x0, ket_x0)
        /\ matmul(X_energy, ket_x1) = scale(params.x1, ket_x1)

\* the operator for x0 = 3, x1 = -1 has been built
C12_Witness ==
    /\ X_energy # <<>>
    /\ params.x0 = CInt(3)
    /\ params.x1 = CInt(-1)

C14_InitialExpectationIsX0 ==
    (Len(X_expectation) >= 1 /\ IsRealC(params.x0) /\ IsRealC(params.x1)) =>
        /\ t_array[1] = QZero
        /\ X_expectation[1] = real(params.x0)

\* the first sample has been taken with x0 = 3, x1 = -1, and with the
\* values of the script, E0 = 1, x0 = 1, x1 = -1
C14_Witness ==
    /\ Len(X_expectation) >= 1
    /\ \/ params.x0 = CInt(3) /\ params.x1 = CInt(-1)
       \/ params = [E0 |-> 1, E1 |-> 0, x0 |-> CInt(1), x1 |-> CInt(-1)]
    /\ X_expectation[1] # real(params.x1)

\* <psi|psi>
norm_squared(psi) == expectation(identity2, psi)

\* C15: the propagation is reversible, U(-t) U(t) = 1 at every sample
\* time (and U(t) is unitary), and the state has the norm of the initial
\* state after each propagation step.
C15_PropagationReversible ==
    (params # None) =>
        /\ \A i \in 1..NSamples :
              /\ matmul(expm(params, QNeg(t_array[i])), expm(params, t_array[i])) = identity2
              /\ matmul(conjT(expm(params, t_array[i])), expm(params, t_array[i])) = identity2
        /\ psi_t # <<>> =>
              /\ norm_squared(psi_t) = norm_squared(psi_0)
              /\ norm_squared(psi_t) = QOne

\* a propagation step has moved the state away from the initial state
C15_Witness ==
    /\ params # None
    /\ Len(X_expectation) >= 2
    /\ psi_t # <<>>
    /\ psi_t # psi_0

\* the number of samples in one period 2*pi / |omega|, or 0 where the period
\* is not a whole number of samples
PeriodSamples(p) ==
    LET w == IAbs(omega(p).a)
    IN  IF omega(p).d = 1 /\ w # 0 /\ (2 * TimeDen) % w = 0 THEN (2 * TimeDen) \div w ELSE 0

\* C16: at every sample time the propagated <X>(t) equals the closed form
\* c0^2 (x0 + x1) + c0^2 (x0 - x1) cos(omega t), omega = (E0 - E1) / hbar,
\* and it repeats after one period 2*pi / omega.
C16_ExpectationMatchesClosedForm ==
    (X_analytical # <<>> /\ IsRealC(params.x0) /\ IsRealC(params.x1)) =>
        /\ Len(X_expectation) = NSamples
        /\ \A i \in 1..NSamples : X_expectation[i] = X_analytical[i]
        /\ PeriodSamples(params) > 0 =>
              \A i \in 1..NSamples :
                  i + PeriodSamples(params) <= NSamples =>
                      X_expectation[i + PeriodSamples(params)] = X_expectation[i]

\* the closed form has been computed for an expectation value that
\* oscillates, over at least one full period
C16_Witness ==
    /\ X_analytical # <<>>
    /\ IsRealC(params.x0) /\ IsRealC(params.x1)
    /\ X_expectation[1] # X_expectation[2]
    /\ PeriodSamples(params) > 0
    /\ 1 + PeriodSamples(params) <= NSamples

\* C17: at every sample the difference <X^2> - <X>^2 given to the square
\* root is treated as non-negative, a small negative value of rounding
\* being clamped to zero, so every sigma_x[i] is a real number >= 0 and
\* never nan.
C17_SigmaAlwaysDefined ==
    \A i \in 1..Len(sigma_x) :
        /\ ~sigma_x[i].nan
        /\ QSign(sigma_x[i].square) >= 0

(***************************************************************************)
(* Claims on the engines under concurrent callers (SpecConcurrent).        *)
(***************************************************************************)
\* the amplitudes of a curve held as terms; two terms on one eigenfunction
\* are not the amplitude of any single call
amplitudes(psi) ==
    [i \in 1..Len(psi) |->
        IF psi[i] = <<>> THEN Zero ELSE IF Len(psi[i]) = 1 THEN psi[i][1].amp ELSE NaN]

\* the result of the call of caller k is the result of the same call made
\* alone on the objects and arrays as they were given
SameAsAlone(k) ==
    LET me == callers[k]
        result == arrays[me.local]
        given == [i \in 1..Len(me.args) |-> SharedArrays[me.args[i]]]
    IN  CASE me.op = "apply_creation" -> result = apply_creation(given[1])
          [] me.op = "apply_annihilation" -> result = apply_annihilation(given[1])
          [] me.op = "state_to_wavefunction" ->
                /\ amplitudes(result) = state_to_wavefunction(given[2])
                /\ \A i \in 1..Len(result) : \A j \in 1..Len(result[i]) :
                       result[i][j].basis = psi_n(SharedObjects.qho, given[1], i - 1)
          [] me.op = "energy_to_position" ->
                result = energy_to_position(SharedObjects.pib, given[1])
          [] me.op = "position_to_energy" ->
                result = position_to_energy(SharedObjects.pib, given[1])

\* C18: the five engine operations keep no state between calls: under every
\* interleaving of calls by concurrent callers on the same objects the
\* fields of the objects (m, omega, hbar, x0; L, n_max, x, dx) and the
\* argument arrays stay as they were, and every call returns the result
\* the same call returns when it runs alone.
C18_NoSharedMutableState ==
    (objects # None) =>
        /\ objects = SharedObjects
        /\ \A a \in 1..Len(SharedArrays) : a \in DOMAIN arrays /\ arrays[a] = SharedArrays[a]
        /\ \A k \in CallerIds : callers[k].status = "returned" => SameAsAlone(k)

\* two calls that ran while the other was in progress have both returned,
\* one on the oscillator and one on the box
C18_Witness ==
    /\ objects # None
    /\ \A k \in CallerIds : callers[k].status = "returned" /\ callers[k].overlap
    /\ callers[1].op \in {"apply_creation", "apply_annihilation", "state_to_wavefunction"}
    /\ callers[2].op \in {"energy_to_position", "position_to_energy"}

(***************************************************************************)
(* Claims on the curve and the state of the visualizer (Spec).             *)
(***************************************************************************)
\* every entry of c is exactly 0 or larger than 1e-10 in magnitude
NoNegligibleEntry(c) == \A i \in 1..Len(c) : c[i] = Zero \/ Gt(Abs(c[i]), Eps)

\* C19: state_to_wavefunction leaves out exactly the terms with
\* |c_n| <= 1e-10: every larger coefficient is kept as it is.  For a vector
\* whose entries are each 0 or larger than 1e-10 in magnitude the curve is
\* the full sum of c_n * psi_n, and for the zero vector it is zero; this
\* holds for the curves the visualizer draws and for every vector of Inputs.
C19_SkipIsAnOptimization ==
    /\ plots.psi_initial = heap[coeffs_id]
    /\ clicks > 0 =>
          /\ NoNegligibleEntry(heap[state.coeffs]) => plots.line_final = heap[state.coeffs]
          /\ heap[state.coeffs] = zeros(n_max) => plots.line_final = zeros(n_max)
    /\ \A c \in Inputs :
          /\ NoNegligibleEntry(c) => state_to_wavefunction(c) = c
          /\ c = zeros(Len(c)) => state_to_wavefunction(c) = zeros(Len(c))
          /\ \A i \in 1..Len(c) :
                state_to_wavefunction(c)[i] = IF Gt(Abs(c[i]), Eps) THEN c[i] ELSE Zero

\* the curve of |2> is drawn as the initial curve, and the zero vector,
\* reached by annihilations, as the current one
C19_Witness ==
    /\ plots.psi_initial = Basis(initial_n, n_max)
    /\ call.op = "annihilation"
    /\ heap[state.coeffs] = zeros(n_max)
    /\ plots.line_final = zeros(n_max)

\* C20: started in |2> with n_max = 10, after every sequence of creation,
\* annihilation and reset callbacks state['coeffs'] has length 10 and is
\* the zero vector or a single basis state (one entry 1, the others 0), so
\* the sum of |c_n|^2 is 0 or 1.
C20_ZeroOrBasisState ==
    LET c == heap[state.coeffs]
    IN  /\ Len(c) = n_max
        /\ c = zeros(n_max) \/ \E n \in 0..(n_max - 1) : c = Basis(n, n_max)
        /\ SumAbsSq(c) \in {SqZero, SqOne}

\* the creation button pressed on the top level |9> has given the zero vector
C20_Witness ==
    /\ call.op = "creation"
    /\ call.before = Basis(n_max - 1, n_max)
    /\ heap[state.coeffs] = zeros(n_max)

\* the vector state['coeffs'] refers to
current == heap[state.coeffs]

\* C21: once state['coeffs'] is the zero vector, a creation or annihilation
\* callback leaves it the zero vector; a step that takes it away from the
\* zero vector is a reset; and a reset gives |2> from every state.
C21_ZeroVectorAbsorbing ==
    [][ /\ (current = zeros(n_max) /\ (apply_creation_op \/ apply_annihilation_op))
            => current' = zeros(n_max)
        /\ (current = zeros(n_max) /\ current' # zeros(n_max)) => reset_state
        /\ reset_state => current' = Basis(initial_n, n_max) ]_vars

\* a ladder callback has been run on the zero vector
C21_Witness ==
    /\ call.op \in {"creation", "annihilation"}
    /\ call.before = zeros(n_max)
    /\ current = zeros(n_max)

\* the vector a callback of one kind leaves of c: the operator, then the
\* renormalization step
Pressed(name, c) == renormalize(method(name, c))

\* C22: the creation callback on the top level |9> gives the zero vector, so
\* eight creation callbacks in a row from |2> reach the zero vector: each of
\* the first seven takes |n> to |n+1>, the eighth takes |9> to zero.  Three
\* annihilation callbacks in a row from |2> reach it too: |2> to |1> to |0>
\* to zero.  The callback that reaches the zero vector finds a norm that is
\* not above 1e-10 and skips the division.  No shorter run of callbacks
\* reaches the zero vector.
C22_TruncationReachesZero ==
    /\ (call.op = "creation" /\ call.before = Basis(n_max - 1, n_max)) =>
          /\ current = zeros(n_max)
          /\ ~Gt(norm_of(apply_creation(call.before)), Eps)
    /\ (call.op = "annihilation" /\ call.before = Basis(0, n_max)) =>
          /\ current = zeros(n_max)
          /\ ~Gt(norm_of(apply_annihilation(call.before)), Eps)
    /\ (clicks < n_max - initial_n /\ call.op = "creation" /\ call.before # zeros(n_max)) =>
          current # zeros(n_max)
    /\ clicks < initial_n + 1 => current # zeros(n_max)
    /\ InitialCoeffs = Basis(initial_n, n_max)
    /\ \A n \in initial_n..(n_max - 2) :
          Pressed("creation", Basis(n, n_max)) = Basis(n + 1, n_max)
    /\ Pressed("creation", Basis(n_max - 1, n_max)) = zeros(n_max)
    /\ \A n \in 1..initial_n :
          Pressed("annihilation", Basis(n, n_max)) = Basis(n - 1, n_max)
    /\ Pressed("annihilation", Basis(0, n_max)) = zeros(n_max)

\* eight callbacks, the last of them a creation on |9>: they were eight
\* creations in a row from |2>
C22_Witness ==
    /\ clicks = n_max - initial_n
    /\ call.op = "creation"
    /\ call.before = Basis(n_max - 1, n_max)
    /\ current = zeros(n_max)

(***************************************************************************)
(* The commutator of the truncated ladder operators (SpecLadder).          *)
(***************************************************************************)
\* k * x for an integer k >= 0
Times(k, x) == MulSqrt(k * k, x)

\* x - y = k * c, for x and y that are whole multiples of c
DifferenceIs(x, y, k, c, most) ==
    \E p \in 0..most, q \in 0..most : x = Times(p, c) /\ y = Times(q, c) /\ p - q = k

\* C23: for every vector c, (a a_dagger c)[n] - (a_dagger a c)[n] = c[n] at
\* every index n below the top one, and at the top index len-1 the
\* difference is -(len-1) * c[len-1]; where the history applies the two
\* operators one after the other, the vectors it holds are these products.
\* The newest vector of the history is the one examined: the earlier ones
\* were the newest in the states before.
C23_CommutatorUpToTruncation ==
    /\ \A k \in {Len(lvecs)} :
          LET c == lvecs[k]
              len == Len(c)
              a_adag == apply_annihilation(apply_creation(c))
              adag_a == apply_creation(apply_annihilation(c))
          IN  /\ Len(a_adag) = len /\ Len(adag_a) = len
              /\ \A n \in 0..(len - 2) :
                    DifferenceIs(At(a_adag, n), At(adag_a, n), 1, At(c, n), len)
              /\ DifferenceIs(At(a_adag, len - 1), At(adag_a, len - 1), -(len - 1),
                              At(c, len - 1), len)
    /\ \A i \in 1..(Len(lops) - 1) :
          /\ (lops[i] = "creation" /\ lops[i + 1] = "annihilation") =>
                lvecs[i + 2] = apply_annihilation(apply_creation(lvecs[i]))
          /\ (lops[i] = "annihilation" /\ lops[i + 1] = "creation") =>
                lvecs[i + 2] = apply_creation(apply_annihilation(lvecs[i]))

\* annihilation and then creation have been applied to a vector of full
\* length whose top entry and a lower entry are not zero
C23_Witness ==
    \E i \in 1..(Len(lops) - 1) :
        /\ lops[i] = "annihilation" /\ lops[i + 1] = "creation"
        /\ Len(lvecs[i]) = MaxLen
        /\ At(lvecs[i], MaxLen - 1) # Zero
        /\ At(lvecs[i], 1) # Zero
        /\ At(lvecs[i + 2], MaxLen - 1) # At(lvecs[i], MaxLen - 1)

====
